---- MODULE Spec2Model ----
(***************************************************************************)
(* Midna dependency usage auditor: the two-stage scan pipeline             *)
(* (scanner.ts fastScan, parser.ts parseFile), the per-file cache          *)
(* (cache.ts CacheManager), the orchestration (analyzer.ts runScan /       *)
(* processFile) and the confidence model (confidence.ts).                  *)
(*                                                                         *)
(* Text is modelled at two levels.  A string (a package name, an import    *)
(* specifier) is a sequence of one-character strings.  A file is a         *)
(* sequence of statements; Text renders a statement to the tokens the      *)
(* regular expressions of Stage A and the directive detector read, and     *)
(* Node gives the syntax-tree node the parser hands to Stage B.            *)
(* Confidence values are exact hundredths (0.3 is 30, 1.0 is 100).         *)
(***************************************************************************)
EXTENDS Integers, Sequences, FiniteSets, TLC

VARIABLES
    manifest,     \* parsed package.json: section -> sequence of [name, version]
    fileContent,  \* file -> sequence of statements
    fileMtime,    \* file -> modification time
    cacheStore,   \* .midna-cache: file -> NoEntry | Corrupt | cache entry
    pc,           \* "idle" | "scanning" | "done" | "failed"
    opts,         \* ScanOptions of the current run
    idx,          \* position of runScan's loop in the file list
    evidenceMap,  \* name -> sequence of evidence entries
    sideMap,      \* name -> set of recorded mode flags
    packages,     \* PackageResult sequence of the last finished run
    totals,       \* totals of the last finished run
    last,         \* what the last processFile call observed
    hist,         \* the previous finished run and what changed since
    budget,       \* remaining runs / edits / I/O faults
    sx,           \* Stage A / Stage B applied to one file content
    cx            \* calculateConfidence applied to one evidence list

scanVars == <<manifest, fileContent, fileMtime, cacheStore, pc, opts, idx,
              evidenceMap, sideMap, packages, totals, last, hist, budget>>
vars == <<manifest, fileContent, fileMtime, cacheStore, pc, opts, idx,
          evidenceMap, sideMap, packages, totals, last, hist, budget, sx, cx>>

----------------------------------------------------------------------------
(* Bounds *)

MaxStmts == 2
MaxEvidence == 5
MaxRuns == 2
MaxEdits == 1
MaxFaults == 1
MaxMtime == 2

----------------------------------------------------------------------------
(* Strings *)

Min(a, b) == IF a <= b THEN a ELSE b
Max(a, b) == IF a >= b THEN a ELSE b

PkgA == <<"a">>
PkgScoped == <<"@", "s", "/", "b">>
SubA == <<"a", "/", "x">>
SubScoped == <<"@", "s", "/", "b", "/", "x">>
UseClientText == <<"use client">>

Names == {PkgA, PkgScoped}
Specifiers == {PkgA, SubA, PkgScoped, SubScoped}

IsPrefix(p, s) == Len(p) <= Len(s) /\ SubSeq(s, 1, Len(p)) = p

RECURSIVE Split(_)
Split(s) ==
    IF \A i \in 1..Len(s) : s[i] # "/" THEN <<s>>
    ELSE LET k == CHOOSE i \in 1..Len(s) :
                      s[i] = "/" /\ \A j \in 1..(i - 1) : s[j] # "/"
         IN  <<SubSeq(s, 1, k - 1)>> \o Split(SubSeq(s, k + 1, Len(s)))

\* normalizePackageName without the branch for scoped packages
normalizePackageNameUnscoped(importPath) == Split(importPath)[1]

normalizePackageName(importPath) ==
    LET parts == Split(importPath)
    IN  IF importPath # <<>> /\ importPath[1] = "@" /\ Len(parts) >= 2
        THEN parts[1] \o <<"/">> \o parts[2]
        ELSE parts[1]

----------------------------------------------------------------------------
(* File text *)

Tok(t) == [t |-> t, q |-> "", s |-> <<>>]
StrTok(q, s) == [t |-> "str", q |-> q, s |-> s]

Stmt(form, spec, q, layout) ==
    [form |-> form, spec |-> spec, q |-> q, layout |-> layout]

\* The tokens of one statement.  "X" stands for any other program text,
\* "WS" for a run of blanks, "NL" for a line terminator.
Text(st) ==
    LET str == StrTok(st.q, st.spec)
        head(kw) ==
            CASE st.layout = "spaced" ->
                    <<Tok(kw), Tok("WS"), Tok("X"), Tok("WS"), Tok("from"), Tok("WS"), str>>
              [] st.layout = "multi" ->
                    <<Tok(kw), Tok("WS"), Tok("X"), Tok("NL"), Tok("X"), Tok("NL"),
                      Tok("X"), Tok("WS"), Tok("from"), Tok("WS"), str>>
              [] OTHER -> <<Tok(kw), Tok("X"), Tok("from"), str>>
    IN  CASE st.form = "import_from" -> head("import")
          [] st.form = "import_type" ->
                <<Tok("import"), Tok("WS"), Tok("X"), Tok("WS"), Tok("X"), Tok("WS"),
                  Tok("from"), Tok("WS"), str>>
          [] st.form = "import_side" -> <<Tok("import"), Tok("WS"), str>>
          [] st.form = "export_from" -> head("export")
          [] st.form = "dynamic" -> <<Tok("import"), Tok("("), str, Tok(")")>>
          [] st.form = "require" -> <<Tok("require"), Tok("("), str, Tok(")")>>
          [] st.form \in {"require_num", "require_ident"} ->
                <<Tok("require"), Tok("("), Tok("X"), Tok(")")>>
          [] st.form = "literal" -> <<Tok("X"), Tok("WS"), str>>
          [] st.form = "directive" ->
                CASE st.layout = "semi" -> <<str, Tok(";")>>
                  [] st.layout = "semi2" -> <<str, Tok(";"), Tok(";")>>
                  [] st.layout = "spaced_semi" -> <<str, Tok("WS"), Tok(";")>>
                  [] st.layout = "indent" -> <<Tok("WS"), str, Tok("WS")>>
                  [] st.layout = "indent_semi" -> <<Tok("WS"), str, Tok(";"), Tok("WS")>>
                  [] OTHER -> <<str>>
          [] st.form = "comment" ->
                IF st.layout = "indent" THEN <<Tok("WS"), Tok("//"), Tok("X")>>
                ELSE <<Tok("//"), Tok("X")>>
          [] st.form = "blank" -> IF st.layout = "indent" THEN <<Tok("WS")>> ELSE <<>>
          [] st.form = "garbage" -> <<Tok("X"), Tok("BAD")>>
          [] OTHER -> <<Tok("X")>>

\* content as the file holds it: the statements joined by line terminators
RECURSIVE Tokens(_)
Tokens(content) ==
    IF content = <<>> THEN <<>>
    ELSE IF Len(content) = 1 THEN Text(content[1])
    ELSE Text(content[1]) \o <<Tok("NL")>> \o Tokens(Tail(content))

\* content.split('\n')
RECURSIVE Lines(_)
Lines(toks) ==
    IF \A i \in 1..Len(toks) : toks[i].t # "NL" THEN <<toks>>
    ELSE LET k == CHOOSE i \in 1..Len(toks) :
                      toks[i].t = "NL" /\ \A j \in 1..(i - 1) : toks[j].t # "NL"
         IN  <<SubSeq(toks, 1, k - 1)>> \o Lines(SubSeq(toks, k + 1, Len(toks)))

\* String.prototype.trim
RECURSIVE Trim(_)
Trim(line) ==
    IF line = <<>> THEN line
    ELSE IF line[1].t = "WS" THEN Trim(Tail(line))
    ELSE IF line[Len(line)].t = "WS" THEN Trim(SubSeq(line, 1, Len(line) - 1))
    ELSE line

\* parser.ts detectUseClient
DetectLines == 20

IsDirectiveLine(line) ==
    /\ Len(line) = 1
    /\ line[1].t = "str"
    /\ line[1].s = UseClientText
    /\ line[1].q \in {"dq", "sq"}

StripSemi(line) ==
    IF line # <<>> /\ line[Len(line)].t = ";"
    THEN SubSeq(line, 1, Len(line) - 1)
    ELSE line

\* the loop of detectUseClient without the break at a substantive line
RECURSIVE DetectFromNoBreak(_, _)
DetectFromNoBreak(lines, i) ==
    IF i > Min(Len(lines), DetectLines) THEN FALSE
    ELSE IF IsDirectiveLine(StripSemi(Trim(lines[i]))) THEN TRUE
    ELSE DetectFromNoBreak(lines, i + 1)

RECURSIVE DetectFrom(_, _)
DetectFrom(lines, i) ==
    IF i > Min(Len(lines), DetectLines) THEN FALSE
    ELSE LET trimmed == Trim(lines[i])
         IN  IF IsDirectiveLine(StripSemi(trimmed)) THEN TRUE
             ELSE IF trimmed # <<>> /\ trimmed[1].t # "//" THEN FALSE
             ELSE DetectFrom(lines, i + 1)

detectUseClient(content) == DetectFrom(Lines(Tokens(content)), 1)

\* scanner.ts hasUseClient
HasLines == 10

hasUseClient(content) ==
    LET lines == Lines(Tokens(content))
        firstLines == SubSeq(lines, 1, Min(Len(lines), HasLines))
    IN  \E i \in 1..Len(firstLines) : IsDirectiveLine(Trim(firstLines[i]))

\* scanner.ts normalizePackageName
scannerNormalizePackageName(importPath) ==
    IF importPath # <<>> /\ importPath[1] = "@" /\ Len(Split(importPath)) >= 2
    THEN Split(importPath)[1] \o <<"/">> \o Split(importPath)[2]
    ELSE Split(importPath)[1]

----------------------------------------------------------------------------
(* Stage A: scanner.ts fastScan *)

IsWs(tok) == tok.t \in {"WS", "NL"}

\* \s+ over toks[a..b]
WsRun(toks, a, b) == a <= b /\ \A x \in a..b : IsWs(toks[x])
\* \s* over toks[a..b]
WsOpt(toks, a, b) == \A x \in a..b : IsWs(toks[x])
\* .*? over toks[a..b]: the dot matches no line terminator
DotRun(toks, a, b) == \A x \in a..b : toks[x].t # "NL"

\* ['""]<pkg> at toks[i]
QuotedPrefix(toks, i, pkg) ==
    /\ i \in 1..Len(toks)
    /\ toks[i].t = "str"
    /\ toks[i].q \in {"dq", "sq"}
    /\ IsPrefix(pkg, toks[i].s)

\* <kw>\s+.*?\s+from\s+['""]<pkg>
MatchFrom(toks, kw, pkg) ==
    LET n == Len(toks)
    IN  \E i \in 1..n :
          /\ toks[i].t = kw
          /\ \E a \in (i + 1)..n :
                /\ WsRun(toks, i + 1, a)
                /\ \E b \in a..n :
                      /\ DotRun(toks, a + 1, b)
                      /\ \E d \in (b + 1)..n :
                            /\ WsRun(toks, b + 1, d)
                            /\ d + 1 <= n
                            /\ toks[d + 1].t = "from"
                            /\ \E e \in (d + 2)..n :
                                  /\ WsRun(toks, d + 2, e)
                                  /\ QuotedPrefix(toks, e + 1, pkg)

\* <kw>\s*\(\s*['""]<pkg>
MatchCall(toks, kw, pkg) ==
    LET n == Len(toks)
    IN  \E i \in 1..n :
          /\ toks[i].t = kw
          /\ \E a \in i..n :
                /\ WsOpt(toks, i + 1, a)
                /\ a + 1 <= n
                /\ toks[a + 1].t = "("
                /\ \E b \in (a + 1)..n :
                      /\ WsOpt(toks, a + 2, b)
                      /\ QuotedPrefix(toks, b + 1, pkg)

\* ['""]<pkg>['""]
MatchLiteral(toks, pkg) ==
    \E i \in 1..Len(toks) :
        toks[i].t = "str" /\ toks[i].q \in {"dq", "sq"} /\ toks[i].s = pkg

MatchesAny(toks, pkg) ==
    \/ MatchFrom(toks, "import", pkg)
    \/ MatchCall(toks, "import", pkg)
    \/ MatchCall(toks, "require", pkg)
    \/ MatchFrom(toks, "export", pkg)
    \/ MatchLiteral(toks, pkg)

\* the members of a sequence that satisfy Test, in order
RECURSIVE SelectSeqBy(_, _, _)
SelectSeqBy(seq, toks, i) ==
    IF i > Len(seq) THEN <<>>
    ELSE (IF MatchesAny(toks, seq[i]) THEN <<seq[i]>> ELSE <<>>)
         \o SelectSeqBy(seq, toks, i + 1)

\* distinct members of a sequence, in order of first occurrence
RECURSIVE Dedup(_)
Dedup(seq) ==
    IF seq = <<>> THEN <<>>
    ELSE LET init == Dedup(SubSeq(seq, 1, Len(seq) - 1))
             x == seq[Len(seq)]
         IN  IF \E j \in 1..Len(init) : init[j] = x THEN init ELSE Append(init, x)

Range(seq) == {seq[i] : i \in 1..Len(seq)}

fastScan(content, readOk, packageNames) ==
    IF ~readOk THEN <<>>
    ELSE Dedup(SelectSeqBy(packageNames, Tokens(content), 1))

----------------------------------------------------------------------------
(* Stage B: parser.ts parseFile / extractImportsFromAST *)

\* parseSync rejects the text
HasSyntaxError(content) == \E i \in 1..Len(content) : content[i].form = "garbage"

\* offset of the first token of statement i (node.span.start)
RECURSIVE SpanStart(_, _)
SpanStart(content, i) ==
    IF i = 1 THEN 1
    ELSE SpanStart(content, i - 1) + Len(Text(content[i - 1])) + 1

\* the syntax-tree node of a statement that extractImportsFromAST looks at.
\* lit tells what sits where the code reads .value: "str" a string literal
\* or an identifier, whose node keeps its name in .value as the callee
\* require does (value is that text), "num" a non-string literal, "none" a
\* node without a value field (a template literal)
Node(st, start) ==
    LET lit == IF st.q \in {"dq", "sq"} THEN "str" ELSE "none"
        node(type, l, kind) ==
            [type |-> type, lit |-> l, value |-> st.spec, importKind |-> kind,
             start |-> start]
    IN  CASE st.form \in {"import_from", "import_side"} ->
                node("ImportDeclaration", lit, "value")
          [] st.form = "import_type" -> node("ImportDeclaration", lit, "type")
          [] st.form = "export_from" -> node("ExportAllDeclaration", lit, "value")
          [] st.form = "dynamic" -> node("ImportExpression", lit, "value")
          [] st.form = "require" -> node("CallExpression", lit, "value")
          [] st.form = "require_num" -> node("CallExpression", "num", "value")
          [] st.form = "require_ident" -> node("CallExpression", "str", "value")
          [] st.form = "literal" -> node("StringLiteral", lit, "value")
          [] OTHER -> node("Other", "none", "value")

\* node.source?.value and node.arguments?.[0]?.expression?.value as a condition
Truthy(node) == node.lit = "num" \/ (node.lit = "str" /\ node.value # <<>>)

ParsedImport(node, type) ==
    [packageName |-> normalizePackageName(node.value), type |-> type,
     line |-> node.start]

\* the walk over the nodes in source order; a non-string truthy argument of
\* require makes normalizePackageName throw, which ends the walk
RECURSIVE extractImportsFromAST(_, _, _)
extractImportsFromAST(content, i, imports) ==
    IF i > Len(content) THEN imports
    ELSE LET node == Node(content[i], SpanStart(content, i))
         IN  IF node.type = "CallExpression" /\ node.lit = "num" THEN imports
             ELSE LET found ==
                         CASE node.type = "ImportDeclaration" /\ Truthy(node) ->
                                 <<ParsedImport(node, IF node.importKind = "type"
                                                      THEN "type_import"
                                                      ELSE "static_import")>>
                           [] node.type = "ExportAllDeclaration" /\ Truthy(node) ->
                                 <<ParsedImport(node, "export_from")>>
                           [] node.type = "ImportExpression" /\ Truthy(node) ->
                                 <<ParsedImport(node, "dynamic_import")>>
                           [] node.type = "CallExpression" /\ Truthy(node) ->
                                 <<ParsedImport(node, "require")>>
                           [] OTHER -> <<>>
                  IN  extractImportsFromAST(content, i + 1, imports \o found)

\* parse errors are caught inside parseFile: the result is what was collected
parseFile(content) ==
    IF HasSyntaxError(content) THEN <<>>
    ELSE extractImportsFromAST(content, 1, <<>>)

----------------------------------------------------------------------------
(* confidence.ts *)

EvidenceTypes ==
    {"static_import", "type_import", "export_from", "require", "dynamic_import",
     "css_import", "config_reference", "string_reference", "plugin_reference"}

EVIDENCE_SCORES ==
    [t \in EvidenceTypes |->
        CASE t = "static_import" -> 100
          [] t = "type_import" -> 90
          [] t = "export_from" -> 100
          [] t = "require" -> 100
          [] t = "dynamic_import" -> 80
          [] t = "css_import" -> 90
          [] t = "config_reference" -> 40
          [] t = "string_reference" -> 30
          [] t = "plugin_reference" -> 50]

DefaultScore == 50
BoostStep == 5
BoostCap == 15
FullConfidence == 100

\* EVIDENCE_SCORES[e.type] || 0.5
ScoreOf(type) ==
    IF type \in EvidenceTypes /\ EVIDENCE_SCORES[type] # 0
    THEN EVIDENCE_SCORES[type]
    ELSE DefaultScore

RECURSIVE MaxScore(_)
MaxScore(evidence) ==
    IF Len(evidence) = 1 THEN ScoreOf(evidence[1].type)
    ELSE Max(ScoreOf(evidence[1].type), MaxScore(Tail(evidence)))

\* calculateConfidence without the cap on the boost
calculateConfidenceUncapped(evidence) ==
    IF Len(evidence) = 0 THEN 0
    ELSE Min(MaxScore(evidence) + (Len(evidence) - 1) * BoostStep, FullConfidence)

\* calculateConfidence scoring the newest entry instead of the strongest
calculateConfidenceLastScore(evidence) ==
    IF Len(evidence) = 0 THEN 0
    ELSE Min(ScoreOf(evidence[Len(evidence)].type)
             + Min((Len(evidence) - 1) * BoostStep, BoostCap), FullConfidence)

calculateConfidence(evidence) ==
    IF Len(evidence) = 0 THEN 0
    ELSE LET maxScore == MaxScore(evidence)
             evidenceBoost == Min((Len(evidence) - 1) * BoostStep, BoostCap)
         IN  Min(maxScore + evidenceBoost, FullConfidence)

\* classifyDependency testing "used" against the wrong threshold
classifyDependencyWrongThreshold(confidence, minUnused, minUsed) ==
    IF confidence >= minUnused THEN "used"
    ELSE IF confidence < minUnused THEN "unused"
    ELSE "uncertain"

\* classifyDependency with a strict comparison against minUsed
classifyDependencyStrictUsed(confidence, minUnused, minUsed) ==
    IF confidence > minUsed THEN "used"
    ELSE IF confidence < minUnused THEN "unused"
    ELSE "uncertain"

classifyDependency(confidence, minUnused, minUsed) ==
    IF confidence >= minUsed THEN "used"
    ELSE IF confidence < minUnused THEN "unused"
    ELSE "uncertain"

NoSides == [client |-> FALSE, server |-> FALSE]

\* determineUsageSide testing the client flag before testing both
determineUsageSideClientFirst(results) ==
    IF results.client THEN "client"
    ELSE IF results.client /\ results.server THEN "both"
    ELSE IF results.server THEN "server"
    ELSE "unknown"

determineUsageSide(results) ==
    IF results.client /\ results.server THEN "both"
    ELSE IF results.client THEN "client"
    ELSE IF results.server THEN "server"
    ELSE "unknown"

HasType(evidence, type) == \E i \in 1..Len(evidence) : evidence[i].type = type

PeerWarning == "Peer dependency - do not remove without checking dependents"

\* generateNotes pushing the peer warning before the evidence notes
generateNotesPeerFirst(status, evidence, section) ==
    (IF section = "peerDependencies" THEN <<PeerWarning>> ELSE <<>>)
    \o (IF status = "uncertain"
        THEN (IF HasType(evidence, "config_reference")
              THEN <<"Referenced in config files but not verified as imported">>
              ELSE <<>>)
             \o (IF HasType(evidence, "string_reference")
                 THEN <<"Only found as string literal references">>
                 ELSE <<>>)
             \o (IF HasType(evidence, "plugin_reference")
                 THEN <<"Possibly used as plugin - verify manually">>
                 ELSE <<>>)
             \o (IF Len(evidence) = 0 THEN <<"No usage evidence found">> ELSE <<>>)
        ELSE <<>>)

generateNotes(status, evidence, section) ==
    (IF status = "uncertain"
     THEN (IF HasType(evidence, "config_reference")
           THEN <<"Referenced in config files but not verified as imported">>
           ELSE <<>>)
          \o (IF HasType(evidence, "string_reference")
              THEN <<"Only found as string literal references">>
              ELSE <<>>)
          \o (IF HasType(evidence, "plugin_reference")
              THEN <<"Possibly used as plugin - verify manually">>
              ELSE <<>>)
          \o (IF Len(evidence) = 0 THEN <<"No usage evidence found">> ELSE <<>>)
     ELSE <<>>)
    \o (IF section = "peerDependencies"
        THEN <<PeerWarning>>
        ELSE <<>>)

----------------------------------------------------------------------------
(* package.ts *)

DEPENDENCY_SECTIONS ==
    <<"dependencies", "devDependencies", "optionalDependencies", "peerDependencies">>

Dep(name, version) == [name |-> name, version |-> version]

SectionNames(pkg, section) == [i \in 1..Len(pkg[section]) |-> pkg[section][i].name]

\* getAllDependencyNames collecting into an array instead of a Set
getAllDependencyNamesArray(pkg) ==
    SectionNames(pkg, "dependencies") \o SectionNames(pkg, "devDependencies")
    \o SectionNames(pkg, "optionalDependencies") \o SectionNames(pkg, "peerDependencies")

getAllDependencyNames(pkg) ==
    Dedup(SectionNames(pkg, "dependencies") \o SectionNames(pkg, "devDependencies")
          \o SectionNames(pkg, "optionalDependencies")
          \o SectionNames(pkg, "peerDependencies"))

\* pkg[section]?.[name] as a condition: the entry exists and its version
\* string is not empty
HasDep(pkg, section, name) ==
    \E i \in 1..Len(pkg[section]) :
        pkg[section][i].name = name /\ pkg[section][i].version # ""

getDependencySection(pkg, name) ==
    IF HasDep(pkg, "dependencies", name) THEN "dependencies"
    ELSE IF HasDep(pkg, "devDependencies", name) THEN "devDependencies"
    ELSE IF HasDep(pkg, "optionalDependencies", name) THEN "optionalDependencies"
    ELSE IF HasDep(pkg, "peerDependencies", name) THEN "peerDependencies"
    ELSE "null"

----------------------------------------------------------------------------
(* cache.ts CacheManager *)

Files == <<"f1", "f2">>
FileSet == Range(Files)

\* What the path of a file's cache entry holds.  shape says what is found
\* there: "entry" what set wrote (or, with present FALSE, nothing), "garbled"
\* text that is not JSON, "noImports" a JSON object with an mtime and without
\* an imports array, "blocked" something that can be neither read as a file
\* nor replaced by one (a directory, a path below a read-only directory).
NoEntry == [present |-> FALSE, hash |-> <<>>, mtime |-> 0, imports |-> <<>>,
            isClient |-> FALSE, shape |-> "entry"]

CacheEntry(hash, mtime, imports, isClient) ==
    [present |-> TRUE, hash |-> hash, mtime |-> mtime, imports |-> imports,
     isClient |-> isClient, shape |-> "entry"]

\* cache files that set did not write
GarbledEntry == [NoEntry EXCEPT !.present = TRUE, !.shape = "garbled"]
NoImportsEntry(mtime) ==
    [NoEntry EXCEPT !.present = TRUE, !.mtime = mtime, !.shape = "noImports"]
BlockedEntry == [NoEntry EXCEPT !.shape = "blocked"]

\* readFile or JSON.parse of the cache file throws
Unreadable(entry) == ~entry.present \/ entry.shape \in {"garbled", "blocked"}


\* createHash: the digest stands for the content it was computed from
createHash(content) == content

\* get without the comparison of the stored mtime with the current one
CacheGetNoMtime(enabled, store, mtimes, filePath, fault) ==
    IF ~enabled THEN NoEntry
    ELSE IF Unreadable(store[filePath]) \/ fault = "cacheRead" THEN NoEntry
    ELSE IF fault = "statGet" THEN NoEntry
    ELSE store[filePath]

\* get: null (NoEntry) when disabled, when the entry cannot be read or parsed,
\* when the file cannot be stat-ed, and when the stored mtime is not the
\* file's current one
CacheGet(enabled, store, mtimes, filePath, fault) ==
    IF ~enabled THEN NoEntry
    ELSE IF Unreadable(store[filePath]) \/ fault = "cacheRead" THEN NoEntry
    ELSE IF fault = "statGet" THEN NoEntry
    ELSE IF store[filePath].mtime # mtimes[filePath] THEN NoEntry
    ELSE store[filePath]

\* set: nothing when disabled or when mkdir / writeFile fails
CacheSet(enabled, store, filePath, entry, fault) ==
    IF ~enabled THEN store
    ELSE IF fault = "write" \/ store[filePath].shape = "blocked" THEN store
    ELSE [store EXCEPT ![filePath] = entry]

\* clear
CacheClear(enabled, store) ==
    IF ~enabled THEN store ELSE [f \in FileSet |-> NoEntry]

\* scanner.ts getFileStats: null is [ok |-> FALSE]
getFileStats(mtimes, filePath, fault) ==
    IF fault = "stat" THEN [ok |-> FALSE, mtime |-> 0]
    ELSE [ok |-> TRUE, mtime |-> mtimes[filePath]]

----------------------------------------------------------------------------
(* analyzer.ts processFile *)

Evidence(file, line, type, snippet) ==
    [file |-> file, line |-> line, type |-> type, snippet |-> snippet]

CachedSnippet == <<Tok("(cached)")>>
StringScanSnippet == <<Tok("(detected via string scan)")>>
SnippetMax == 100

\* addEvidence putting the new entry in front
addEvidenceInFront(map, pkg, evidence) == [map EXCEPT ![pkg] = <<evidence>> \o @]

addEvidence(map, pkg, evidence) == [map EXCEPT ![pkg] = Append(@, evidence)]

updateSideMap(map, pkg, isClient) ==
    IF isClient THEN [map EXCEPT ![pkg].client = TRUE]
    ELSE [map EXCEPT ![pkg].server = TRUE]

extractSnippet(content, line) ==
    LET lines == Lines(Tokens(content))
        index == line - 1
    IN  IF index >= 0 /\ index < Len(lines)
        THEN LET t == Trim(lines[index + 1])
             IN  SubSeq(t, 1, Min(Len(t), SnippetMax))
        ELSE <<>>

\* the test of a hit without the comparison of the two mtimes
IsCacheHitNoMtime(cached, stats) == cached.present /\ stats.ok

\* cached && stats && cached.mtime === stats.mtime
IsCacheHit(cached, stats) ==
    cached.present /\ stats.ok /\ cached.mtime = stats.mtime

\* the replay loop without the call of updateSideMap
RECURSIVE ReplayCachedNoSide(_, _, _, _)
ReplayCachedNoSide(maps, filePath, cached, i) ==
    IF i > Len(cached.imports) THEN maps
    ELSE ReplayCachedNoSide(
             [ev |-> addEvidence(maps.ev, cached.imports[i],
                         Evidence(filePath, 0, "static_import", CachedSnippet)),
              side |-> maps.side],
             filePath, cached, i + 1)

\* the replay loop of a cache hit, over cached.imports[i..]
RECURSIVE ReplayCached(_, _, _, _)
ReplayCached(maps, filePath, cached, i) ==
    IF i > Len(cached.imports) THEN maps
    ELSE LET pkg == cached.imports[i]
         IN  ReplayCached(
                 [ev |-> addEvidence(maps.ev, pkg,
                             Evidence(filePath, 0, "static_import", CachedSnippet)),
                  side |-> updateSideMap(maps.side, pkg, cached.isClient)],
                 filePath, cached, i + 1)

\* the loop over the Stage B imports recording one entry per package name
RECURSIVE RecordImportsOncePerName(_, _, _, _, _, _, _)
RecordImportsOncePerName(maps, filePath, content, imports, isClient, packageNames, i) ==
    IF i > Len(imports) THEN maps
    ELSE LET imp == imports[i]
             next ==
                 IF /\ imp.packageName \in Range(packageNames)
                    /\ imp.packageName \notin Range(maps.found)
                 THEN [ev |-> addEvidence(maps.ev, imp.packageName,
                                  Evidence(filePath, imp.line, imp.type,
                                           extractSnippet(content, imp.line))),
                       side |-> updateSideMap(maps.side, imp.packageName, isClient),
                       found |-> Append(maps.found, imp.packageName)]
                 ELSE maps
         IN  RecordImportsOncePerName(next, filePath, content, imports, isClient,
                                      packageNames, i + 1)

\* the loop over the Stage B imports, over imports[i..]
RECURSIVE RecordImports(_, _, _, _, _, _, _)
RecordImports(maps, filePath, content, imports, isClient, packageNames, i) ==
    IF i > Len(imports) THEN maps
    ELSE LET imp == imports[i]
             next ==
                 IF imp.packageName \in Range(packageNames)
                 THEN [ev |-> addEvidence(maps.ev, imp.packageName,
                                  Evidence(filePath, imp.line, imp.type,
                                           extractSnippet(content, imp.line))),
                       side |-> updateSideMap(maps.side, imp.packageName, isClient),
                       found |-> Dedup(Append(maps.found, imp.packageName))]
                 ELSE maps
         IN  RecordImports(next, filePath, content, imports, isClient,
                           packageNames, i + 1)

\* the fallback loop recording config_reference entries
RECURSIVE RecordConfigRefs(_, _, _, _)
RecordConfigRefs(ev, filePath, candidates, i) ==
    IF i > Len(candidates) THEN ev
    ELSE RecordConfigRefs(
             addEvidence(ev, candidates[i],
                 Evidence(filePath, 0, "config_reference", StringScanSnippet)),
             filePath, candidates, i + 1)

\* the fallback loop of the catch block, over candidates[i..]
RECURSIVE RecordStringRefs(_, _, _, _)
RecordStringRefs(ev, filePath, candidates, i) ==
    IF i > Len(candidates) THEN ev
    ELSE RecordStringRefs(
             addEvidence(ev, candidates[i],
                 Evidence(filePath, 0, "string_reference", StringScanSnippet)),
             filePath, candidates, i + 1)

\* processFile without the early return
SkipsFileNever(candidates) == FALSE

\* Stage A found nothing: processFile returns
SkipsFile(candidates) == Len(candidates) = 0

\* The whole of processFile on filePath.  fault names the one I/O operation
\* that fails in this call, "none" when all succeed.  thrown: the call
\* rejects; the replay loop iterates cached.imports outside any try, which
\* throws a TypeError when the entry has no imports array.
processFile(filePath, packageNames, ev, side, enabled, store, contents, mtimes, fault) ==
    LET cached == CacheGet(enabled, store, mtimes, filePath, fault)
        stats == getFileStats(mtimes, filePath, fault)
        content == contents[filePath]
        seen == [file |-> filePath, cached |-> cached,
                 stats |-> stats, hit |-> FALSE, candidates |-> <<>>,
                 stageB |-> "skipped", syntaxError |-> FALSE]
    IN  IF IsCacheHit(cached, stats) /\ cached.shape = "noImports"
        THEN [ev |-> ev, side |-> side, store |-> store,
              last |-> [seen EXCEPT !.hit = TRUE], thrown |-> TRUE]
        ELSE IF IsCacheHit(cached, stats)
        THEN LET maps == ReplayCached([ev |-> ev, side |-> side], filePath, cached, 1)
             IN  [ev |-> maps.ev, side |-> maps.side, store |-> store,
                  last |-> [seen EXCEPT !.hit = TRUE], thrown |-> FALSE]
        ELSE LET candidates == fastScan(content, fault # "readA", packageNames)
             IN  IF SkipsFile(candidates)
                 THEN [ev |-> ev, side |-> side, store |-> store, last |-> seen,
                       thrown |-> FALSE]
                 ELSE IF fault = "readB"
                 THEN [ev |-> RecordStringRefs(ev, filePath, candidates, 1),
                       side |-> side, store |-> store,
                       last |-> [seen EXCEPT !.candidates = candidates,
                                             !.stageB = "read_error"],
                       thrown |-> FALSE]
                 ELSE LET imports == parseFile(content)
                          isClient == detectUseClient(content)
                          maps == RecordImports(
                                      [ev |-> ev, side |-> side, found |-> <<>>],
                                      filePath, content, imports, isClient,
                                      packageNames, 1)
                          written ==
                              IF stats.ok
                              THEN CacheSet(enabled, store, filePath,
                                       CacheEntry(createHash(content), stats.mtime,
                                                  maps.found, isClient),
                                       fault)
                              ELSE store
                      IN  [ev |-> maps.ev, side |-> maps.side, store |-> written,
                           last |-> [seen EXCEPT
                                        !.candidates = candidates,
                                        !.stageB = "ran",
                                        !.syntaxError = HasSyntaxError(content)],
                           thrown |-> FALSE]

----------------------------------------------------------------------------
(* analyzer.ts runScan *)

PackageResult(pkg, depName, ev, side, minUnused, minUsed) ==
    LET evidence == ev[depName]
        confidence == calculateConfidence(evidence)
        status == classifyDependency(confidence, minUnused, minUsed)
        found == getDependencySection(pkg, depName)
        section == IF found = "null" THEN "dependencies" ELSE found
    IN  [name |-> depName, section |-> section, status |-> status,
         confidence |-> confidence, side |-> determineUsageSide(side[depName]),
         evidence |-> evidence, notes |-> generateNotes(status, evidence, section)]

CountStatus(pkgs, status) ==
    Cardinality({i \in 1..Len(pkgs) : pkgs[i].status = status})

Totals(pkgs) ==
    [used |-> CountStatus(pkgs, "used"), unused |-> CountStatus(pkgs, "unused"),
     uncertain |-> CountStatus(pkgs, "uncertain")]

----------------------------------------------------------------------------
(* The inputs of the scan *)

SQ(form, spec, layout) == Stmt(form, spec, "sq", layout)
Directive(q, layout) == Stmt("directive", UseClientText, q, layout)
Plain(form) == Stmt(form, <<>>, "", "")

StaticImportFile == <<SQ("import_from", PkgA, "spaced")>>
ClientFile ==
    <<Directive("dq", "semi"), SQ("import_type", PkgA, "spaced"),
      SQ("dynamic", SubScoped, ""), SQ("dynamic", PkgScoped, "")>>
BrokenFile == <<SQ("literal", PkgA, ""), Plain("garbage")>>
LiteralFile == <<SQ("literal", PkgA, "")>>
SideEffectFile == <<SQ("import_side", SubA, "")>>

\* what the first file may hold, what the second may hold, and what an
\* editor may write
ScanContents == {StaticImportFile, ClientFile, BrokenFile, LiteralFile, SideEffectFile}
SecondContents == {StaticImportFile, SideEffectFile}
EditContents == {StaticImportFile, BrokenFile}

Manifests ==
    { [dependencies |-> <<Dep(PkgA, "^1.0.0")>>, devDependencies |-> <<>>,
       optionalDependencies |-> <<>>,
       peerDependencies |-> <<Dep(PkgA, "^1.0.0"), Dep(PkgScoped, "*")>>] }

\* minConfidenceUnused, minConfidenceUsed: the defaults of the command line
Thresholds == {<<30, 70>>}

ScanOptions ==
    {[noCache |-> nc, minConfidenceUnused |-> th[1], minConfidenceUsed |-> th[2]] :
        nc \in BOOLEAN, th \in Thresholds}

Faults == {"cacheRead", "statGet", "stat", "readA", "readB", "write"}

NoLast ==
    [file |-> "none", cached |-> NoEntry,
     stats |-> [ok |-> FALSE, mtime |-> 0], hit |-> FALSE, candidates |-> <<>>,
     stageB |-> "skipped", syntaxError |-> FALSE]

NoTotals == [used |-> 0, unused |-> 0, uncertain |-> 0]

DefaultOptions ==
    [noCache |-> FALSE, minConfidenceUnused |-> 30, minConfidenceUsed |-> 70]

\* prev*: the last finished run; changedBefore: a file or the cache changed
\* between that run and the current one; changed: since the last run began;
\* faulted: an I/O operation failed in the current run
NoHist ==
    [prevValid |-> FALSE, prevPackages |-> <<>>, prevOpts |-> DefaultOptions,
     prevFaulted |-> FALSE, changedBefore |-> FALSE, changed |-> FALSE,
     faulted |-> FALSE]

ScanInit ==
    /\ manifest \in Manifests
    /\ \E c1 \in ScanContents, c2 \in SecondContents :
          fileContent = [f \in FileSet |-> IF f = Files[1] THEN c1 ELSE c2]
    /\ fileMtime = [f \in FileSet |-> 1]
    /\ cacheStore = [f \in FileSet |-> NoEntry]
    /\ pc = "idle"
    /\ opts = DefaultOptions
    /\ idx = 0
    /\ evidenceMap = [n \in Names |-> <<>>]
    /\ sideMap = [n \in Names |-> NoSides]
    /\ packages = <<>>
    /\ totals = NoTotals
    /\ last = NoLast
    /\ hist = NoHist
    /\ budget = [runs |-> MaxRuns, edits |-> MaxEdits, faults |-> MaxFaults]

Idle == pc \in {"idle", "done"}

\* runScan up to the file loop: the cache manager, the manifest, empty maps
StartScan(o) ==
    /\ Idle
    /\ budget.runs > 0
    /\ pc' = "scanning"
    /\ opts' = o
    /\ idx' = 1
    /\ packages' = <<>>
    /\ totals' = NoTotals
    /\ hist' = [prevValid |-> pc = "done", prevPackages |-> packages,
                prevOpts |-> opts, prevFaulted |-> hist.faulted,
                changedBefore |-> hist.changed, changed |-> FALSE, faulted |-> FALSE]
    /\ budget' = [budget EXCEPT !.runs = @ - 1]
    /\ UNCHANGED <<manifest, fileContent, fileMtime, cacheStore, evidenceMap,
                   sideMap, last>>

\* one iteration of the file loop: processFile on Files[idx]; when the call
\* rejects, runScan rejects with it
ProcessFile(fault) ==
    /\ pc = "scanning"
    /\ idx <= Len(Files)
    /\ fault # "none" => budget.faults > 0
    /\ LET r == processFile(Files[idx], getAllDependencyNames(manifest), evidenceMap,
                            sideMap, ~opts.noCache, cacheStore, fileContent,
                            fileMtime, fault)
       IN  /\ evidenceMap' = r.ev
           /\ sideMap' = r.side
           /\ cacheStore' = r.store
           /\ last' = r.last
           /\ pc' = IF r.thrown THEN "failed" ELSE pc
           /\ idx' = IF r.thrown THEN idx ELSE idx + 1
    /\ budget' = IF fault = "none" THEN budget ELSE [budget EXCEPT !.faults = @ - 1]
    /\ hist' = IF fault = "none" THEN hist ELSE [hist EXCEPT !.faulted = TRUE]
    /\ UNCHANGED <<manifest, fileContent, fileMtime, opts, packages, totals>>

\* runScan after the file loop: one PackageResult per declared name, totals
BuildResults ==
    /\ pc = "scanning"
    /\ idx > Len(Files)
    /\ LET allDeps == getAllDependencyNames(manifest)
           pkgs == [i \in 1..Len(allDeps) |->
                       PackageResult(manifest, allDeps[i], evidenceMap, sideMap,
                                     opts.minConfidenceUnused, opts.minConfidenceUsed)]
       IN  /\ packages' = pkgs
           /\ totals' = Totals(pkgs)
    /\ pc' = "done"
    /\ idx' = 0
    /\ evidenceMap' = [n \in Names |-> <<>>]
    /\ sideMap' = [n \in Names |-> NoSides]
    /\ last' = NoLast
    /\ UNCHANGED <<manifest, fileContent, fileMtime, cacheStore, opts, hist, budget>>

\* an editor rewrites a file between two runs; the write moves its mtime on
ModifyFile(f, content) ==
    /\ Idle
    /\ budget.edits > 0
    /\ fileMtime[f] < MaxMtime
    /\ content # fileContent[f]
    /\ fileContent' = [fileContent EXCEPT ![f] = content]
    /\ fileMtime' = [fileMtime EXCEPT ![f] = @ + 1]
    /\ hist' = [hist EXCEPT !.changed = TRUE]
    /\ budget' = [budget EXCEPT !.edits = @ - 1]
    /\ UNCHANGED <<manifest, cacheStore, pc, opts, idx, evidenceMap, sideMap,
                   packages, totals, last>>

\* CacheManager.clear on an enabled manager, between two runs
ClearCache ==
    /\ Idle
    /\ budget.edits > 0
    /\ \E f \in FileSet : cacheStore[f].present
    /\ cacheStore' = CacheClear(TRUE, cacheStore)
    /\ hist' = [hist EXCEPT !.changed = TRUE]
    /\ budget' = [budget EXCEPT !.edits = @ - 1]
    /\ UNCHANGED <<manifest, fileContent, fileMtime, pc, opts, idx, evidenceMap,
                   sideMap, packages, totals, last>>

NoStage == [content |-> <<>>, names |-> <<>>, candidates |-> <<>>, imports |-> <<>>,
            isClient |-> FALSE, hasClient |-> FALSE, specifier |-> <<>>,
            normalized |-> <<>>, scanned |-> <<>>, renormalized |-> <<>>,
            applied |-> "none"]
NoConf == [evidence |-> <<>>, minUnused |-> 0, minUsed |-> 0, appended |-> "none",
           result |-> [name |-> PkgA, section |-> "dependencies", status |-> "unused",
                       confidence |-> 0, side |-> "unknown", evidence |-> <<>>,
                       notes |-> <<>>]]

Init == ScanInit /\ sx = NoStage /\ cx = NoConf

Next ==
    \/ \E o \in ScanOptions : StartScan(o) /\ UNCHANGED <<sx, cx>>
    \/ \E fault \in Faults \cup {"none"} : ProcessFile(fault) /\ UNCHANGED <<sx, cx>>
    \/ BuildResults /\ UNCHANGED <<sx, cx>>
    \/ \E f \in FileSet, c \in EditContents : ModifyFile(f, c) /\ UNCHANGED <<sx, cx>>
    \/ ClearCache /\ UNCHANGED <<sx, cx>>

Spec == Init /\ [][Next]_vars

----------------------------------------------------------------------------
(* Stage A and Stage B applied to one file content *)

StageSpecifiers == {PkgA, SubA, SubScoped}

StageStmts ==
    {SQ("import_from", s, l) : s \in StageSpecifiers, l \in {"spaced", "multi", "compact"}}
    \cup {SQ("import_type", s, "spaced") : s \in StageSpecifiers}
    \cup {SQ("import_side", s, "") : s \in StageSpecifiers}
    \cup {SQ("export_from", s, l) : s \in StageSpecifiers, l \in {"spaced", "compact"}}
    \cup {Stmt("dynamic", s, q, "") : s \in StageSpecifiers, q \in {"sq", "bt"}}
    \cup {Stmt("require", s, q, "") : s \in StageSpecifiers, q \in {"dq", "bt"}}
    \cup {SQ("literal", s, "") : s \in StageSpecifiers}
    \cup {Plain("require_num"), Stmt("require_ident", PkgA, "", ""), Plain("garbage"), Plain("other"), Plain("comment"),
          Directive("sq", "plain")}

SeqsUpTo(S, n) == UNION {[1..k -> S] : k \in 1..n}

StageContents == SeqsUpTo(StageStmts, MaxStmts)

StageNames == <<PkgA, PkgScoped>>

\* the scan itself stands still while a pure function is applied
ScanIdle ==
    /\ manifest \in Manifests
    /\ fileContent = [f \in FileSet |-> StaticImportFile]
    /\ fileMtime = [f \in FileSet |-> 1]
    /\ cacheStore = [f \in FileSet |-> NoEntry]
    /\ pc = "idle"
    /\ opts = DefaultOptions
    /\ idx = 0
    /\ evidenceMap = [n \in Names |-> <<>>]
    /\ sideMap = [n \in Names |-> NoSides]
    /\ packages = <<>>
    /\ totals = NoTotals
    /\ last = NoLast
    /\ hist = NoHist
    /\ budget = [runs |-> 0, edits |-> 0, faults |-> 0]

StageInit ==
    /\ ScanIdle
    /\ cx = NoConf
    /\ \E c \in StageContents : sx = [NoStage EXCEPT !.content = c, !.names = StageNames]

RunStageA ==
    /\ sx.applied = "none"
    /\ sx' = [sx EXCEPT !.candidates = fastScan(sx.content, TRUE, sx.names),
                        !.applied = "A"]
    /\ UNCHANGED <<scanVars, cx>>

RunStageB ==
    /\ sx.applied = "A"
    /\ sx' = [sx EXCEPT !.imports = parseFile(sx.content), !.applied = "AB"]
    /\ UNCHANGED <<scanVars, cx>>

StageNext == RunStageA \/ RunStageB

SpecStage == StageInit /\ [][StageNext]_vars

----------------------------------------------------------------------------
(* The confidence model applied to a growing evidence list *)

AllTypes == EvidenceTypes \cup {"unknown_type"}
\* the first entries range over every type, the later ones over these
LaterTypes == {"string_reference", "dynamic_import", "static_import"}
FreeLen == 2

ConfThresholds == {<<30, 70>>, <<30, 90>>, <<70, 30>>, <<50, 90>>, <<50, 50>>}

\* the result for depName, declared as the manifest of the scan declares it:
\* PkgA under dependencies, PkgScoped under peerDependencies only
ConfResult(depName, evidence, minUnused, minUsed) ==
    PackageResult(CHOOSE m \in Manifests : TRUE, depName,
                  [n \in Names |-> IF n = depName THEN evidence ELSE <<>>],
                  [n \in Names |-> NoSides], minUnused, minUsed)

ConfInit ==
    /\ ScanIdle
    /\ sx = NoStage
    /\ \E th \in ConfThresholds, n \in Names :
          cx = [NoConf EXCEPT !.minUnused = th[1], !.minUsed = th[2],
                              !.result = ConfResult(n, <<>>, th[1], th[2])]

\* one more entry is recorded for the dependency and its result is rebuilt
AppendEvidence(type) ==
    /\ Len(cx.evidence) < MaxEvidence
    /\ Len(cx.evidence) >= FreeLen => type \in LaterTypes
    /\ LET evidence == Append(cx.evidence, Evidence("f1", 0, type, <<>>))
       IN  cx' = [cx EXCEPT !.evidence = evidence, !.appended = type,
                            !.result = ConfResult(cx.result.name, evidence,
                                                  cx.minUnused, cx.minUsed)]
    /\ UNCHANGED <<scanVars, sx>>

ConfNext == \E type \in AllTypes : AppendEvidence(type)

SpecConf == ConfInit /\ [][ConfNext]_vars

----------------------------------------------------------------------------
(* One scan over every shape of manifest *)

\* how a section declares a name: not at all, with a range, with the empty range
Versions == {"absent", "^1.0.0", ""}

Decl(name, version) == IF version = "absent" THEN <<>> ELSE <<Dep(name, version)>>

\* a[k], b[k]: how section k declares PkgA and PkgScoped
RunManifest(a, b) ==
    [dependencies |-> Decl(PkgA, a[1]) \o Decl(PkgScoped, b[1]),
     devDependencies |-> Decl(PkgA, a[2]) \o Decl(PkgScoped, b[2]),
     optionalDependencies |-> Decl(PkgA, a[3]) \o Decl(PkgScoped, b[3]),
     peerDependencies |-> Decl(PkgScoped, b[4]) \o Decl(PkgA, a[4])]

ScopedDecls ==
    {<<"absent", "absent", "absent", "absent">>,
     <<"absent", "absent", "absent", "^1.0.0">>,
     <<"absent", "^1.0.0", "absent", "^1.0.0">>}

RunManifests ==
    {RunManifest(a, b) : a \in [1..4 -> Versions], b \in ScopedDecls}

\* parseFloat of the two threshold options: nothing compares them
RunThresholds == {<<30, 70>>, <<70, 30>>}

RunOptions ==
    {[noCache |-> nc, minConfidenceUnused |-> th[1], minConfidenceUsed |-> th[2]] :
        nc \in BOOLEAN, th \in RunThresholds}

OtherFile == <<Plain("other")>>
MultiLineSubpathFile == <<SQ("import_from", SubA, "multi")>>

MixedFile == <<SQ("literal", PkgA, ""), SQ("import_side", SubScoped, "")>>

RunFirst == ScanContents \cup {MultiLineSubpathFile, MixedFile}
RunSecond == {StaticImportFile, OtherFile}

RunInit ==
    /\ manifest \in RunManifests
    /\ \E c1 \in RunFirst, c2 \in RunSecond :
          fileContent = [f \in FileSet |-> IF f = Files[1] THEN c1 ELSE c2]
    /\ fileMtime = [f \in FileSet |-> 1]
    /\ cacheStore = [f \in FileSet |-> NoEntry]
    /\ pc = "idle"
    /\ opts = DefaultOptions
    /\ idx = 0
    /\ evidenceMap = [n \in Names |-> <<>>]
    /\ sideMap = [n \in Names |-> NoSides]
    /\ packages = <<>>
    /\ totals = NoTotals
    /\ last = NoLast
    /\ hist = NoHist
    /\ budget = [runs |-> 1, edits |-> 0, faults |-> 0]
    /\ sx = NoStage
    /\ cx = NoConf

RunNext ==
    \/ \E o \in RunOptions : StartScan(o) /\ UNCHANGED <<sx, cx>>
    \/ ProcessFile("none") /\ UNCHANGED <<sx, cx>>
    \/ BuildResults /\ UNCHANGED <<sx, cx>>

SpecRun == RunInit /\ [][RunNext]_vars

----------------------------------------------------------------------------
(* Two scans of the same files with package.json edited between them *)

\* a manifest whose dependencies section declares PkgA as a says and
\* PkgScoped as b says
DepsManifest(a, b) ==
    RunManifest(<<a, "absent", "absent", "absent">>, <<b, "absent", "absent", "absent">>)

EditManifests == {DepsManifest(a, b) : a, b \in {"absent", "^1.0.0"}}

\* package.json is rewritten between two runs
ChangeManifest(m) ==
    /\ Idle
    /\ budget.edits > 0
    /\ m # manifest
    /\ manifest' = m
    /\ hist' = [hist EXCEPT !.changed = TRUE]
    /\ budget' = [budget EXCEPT !.edits = @ - 1]
    /\ UNCHANGED <<fileContent, fileMtime, cacheStore, pc, opts, idx, evidenceMap,
                   sideMap, packages, totals, last>>

ManifestInit ==
    /\ manifest \in EditManifests
    /\ \E c1 \in ScanContents, c2 \in SecondContents :
          fileContent = [f \in FileSet |-> IF f = Files[1] THEN c1 ELSE c2]
    /\ fileMtime = [f \in FileSet |-> 1]
    /\ cacheStore = [f \in FileSet |-> NoEntry]
    /\ pc = "idle"
    /\ opts = DefaultOptions
    /\ idx = 0
    /\ evidenceMap = [n \in Names |-> <<>>]
    /\ sideMap = [n \in Names |-> NoSides]
    /\ packages = <<>>
    /\ totals = NoTotals
    /\ last = NoLast
    /\ hist = NoHist
    /\ budget = [runs |-> MaxRuns, edits |-> MaxEdits, faults |-> 0]
    /\ sx = NoStage
    /\ cx = NoConf

ManifestNext ==
    \/ \E o \in ScanOptions : StartScan(o) /\ UNCHANGED <<sx, cx>>
    \/ ProcessFile("none") /\ UNCHANGED <<sx, cx>>
    \/ BuildResults /\ UNCHANGED <<sx, cx>>
    \/ \E m \in EditManifests : ChangeManifest(m) /\ UNCHANGED <<sx, cx>>

SpecManifest == ManifestInit /\ [][ManifestNext]_vars

----------------------------------------------------------------------------
(* One scan over a cache directory that holds files set did not write *)

\* what the path of a file's cache entry may hold before the scan: nothing,
\* text that is not JSON, an object without imports carrying the file's
\* current mtime or another one, something that cannot be written
PreEntries ==
    {NoEntry, GarbledEntry, NoImportsEntry(1), NoImportsEntry(0), BlockedEntry}

\* readPackageJson throws: package.json is unreadable or is not JSON
ManifestFails ==
    /\ Idle
    /\ budget.runs > 0
    /\ pc' = "failed"
    /\ idx' = 0
    /\ budget' = [budget EXCEPT !.runs = @ - 1]
    /\ UNCHANGED <<manifest, fileContent, fileMtime, cacheStore, opts, evidenceMap,
                   sideMap, packages, totals, last, hist>>

CacheFailInit ==
    /\ manifest \in Manifests
    /\ \E c1 \in ScanContents, c2 \in SecondContents :
          fileContent = [f \in FileSet |-> IF f = Files[1] THEN c1 ELSE c2]
    /\ fileMtime = [f \in FileSet |-> 1]
    /\ cacheStore \in [FileSet -> PreEntries]
    /\ pc = "idle"
    /\ opts = DefaultOptions
    /\ idx = 0
    /\ evidenceMap = [n \in Names |-> <<>>]
    /\ sideMap = [n \in Names |-> NoSides]
    /\ packages = <<>>
    /\ totals = NoTotals
    /\ last = NoLast
    /\ hist = NoHist
    /\ budget = [runs |-> 1, edits |-> 0, faults |-> MaxFaults]
    /\ sx = NoStage
    /\ cx = NoConf

CacheFailNext ==
    \/ \E o \in ScanOptions : StartScan(o) /\ UNCHANGED <<sx, cx>>
    \/ ManifestFails /\ UNCHANGED <<sx, cx>>
    \/ \E fault \in Faults \cup {"none"} : ProcessFile(fault) /\ UNCHANGED <<sx, cx>>
    \/ BuildResults /\ UNCHANGED <<sx, cx>>

SpecCacheFail == CacheFailInit /\ [][CacheFailNext]_vars

----------------------------------------------------------------------------
(* processFile step by step, with another process writing the files *)

MaxWrites == 2

RaceContents == {StaticImportFile, SideEffectFile}

\* The awaits of processFile split it into steps.  last holds the locals
\* cached, stats and candidates of the call in flight; sx.applied is its
\* position ("none": not begun), sx.content what Stage B read, sx.imports
\* foundPackages and sx.isClient the directive flag.

\* another process rewrites f at any moment; the write gives f an mtime it
\* did not have before
WriteFile(f, content) ==
    /\ budget.edits > 0
    /\ content # fileContent[f]
    /\ fileContent' = [fileContent EXCEPT ![f] = content]
    /\ fileMtime' = [fileMtime EXCEPT ![f] = @ + 1]
    /\ budget' = [budget EXCEPT !.edits = @ - 1]
    /\ hist' = [hist EXCEPT !.changed = TRUE]
    /\ UNCHANGED <<manifest, cacheStore, pc, opts, idx, evidenceMap, sideMap,
                   packages, totals, last, sx, cx>>

InFlight(step) == pc = "scanning" /\ idx <= Len(Files) /\ sx.applied = step

\* const cached = await cache.get(filePath)
StepGet ==
    /\ InFlight("none")
    /\ last' = [NoLast EXCEPT
                   !.file = Files[idx],
                   !.cached = CacheGet(~opts.noCache, cacheStore, fileMtime,
                                       Files[idx], "none")]
    /\ sx' = [NoStage EXCEPT !.applied = "get"]
    /\ UNCHANGED <<manifest, fileContent, fileMtime, cacheStore, pc, opts, idx,
                   evidenceMap, sideMap, packages, totals, hist, budget, cx>>

\* const stats = await getFileStats(filePath), the test of a hit and, on a
\* hit, the replay loop and the return
StepStat ==
    /\ InFlight("get")
    /\ LET stats == getFileStats(fileMtime, Files[idx], "none")
       IN  IF IsCacheHit(last.cached, stats)
           THEN LET maps == ReplayCached([ev |-> evidenceMap, side |-> sideMap],
                                         Files[idx], last.cached, 1)
                IN  /\ evidenceMap' = maps.ev
                    /\ sideMap' = maps.side
                    /\ last' = [last EXCEPT !.stats = stats, !.hit = TRUE]
                    /\ idx' = idx + 1
                    /\ sx' = NoStage
           ELSE /\ last' = [last EXCEPT !.stats = stats]
                /\ sx' = [sx EXCEPT !.applied = "stat"]
                /\ UNCHANGED <<evidenceMap, sideMap, idx>>
    /\ UNCHANGED <<manifest, fileContent, fileMtime, cacheStore, pc, opts,
                   packages, totals, hist, budget, cx>>

\* const candidates = await fastScan(filePath, packageNames) and the early
\* return
StepStageA ==
    /\ InFlight("stat")
    /\ LET candidates == fastScan(fileContent[Files[idx]], TRUE,
                                  getAllDependencyNames(manifest))
       IN  IF SkipsFile(candidates)
           THEN /\ idx' = idx + 1
                /\ sx' = NoStage
                /\ UNCHANGED last
           ELSE /\ last' = [last EXCEPT !.candidates = candidates]
                /\ sx' = [sx EXCEPT !.applied = "A"]
                /\ UNCHANGED idx
    /\ UNCHANGED <<manifest, fileContent, fileMtime, cacheStore, pc, opts,
                   evidenceMap, sideMap, packages, totals, hist, budget, cx>>

\* const content = await readFile(filePath), parseFile, detectUseClient and
\* the loop over the imports, up to the await of cache.set
StepStageB ==
    /\ InFlight("A")
    /\ LET content == fileContent[Files[idx]]
           isClient == detectUseClient(content)
           maps == RecordImports([ev |-> evidenceMap, side |-> sideMap, found |-> <<>>],
                                 Files[idx], content, parseFile(content), isClient,
                                 getAllDependencyNames(manifest), 1)
       IN  /\ evidenceMap' = maps.ev
           /\ sideMap' = maps.side
           /\ sx' = [sx EXCEPT !.content = content, !.imports = maps.found,
                               !.isClient = isClient, !.applied = "B"]
           /\ last' = [last EXCEPT !.stageB = "ran",
                                   !.syntaxError = HasSyntaxError(content)]
    /\ UNCHANGED <<manifest, fileContent, fileMtime, cacheStore, pc, opts, idx,
                   packages, totals, hist, budget, cx>>

\* await cache.set(filePath, {hash, mtime: stats.mtime, imports, isClient})
StepSet ==
    /\ InFlight("B")
    /\ cacheStore' =
          IF last.stats.ok
          THEN CacheSet(~opts.noCache, cacheStore, Files[idx],
                        CacheEntry(createHash(sx.content), last.stats.mtime,
                                   sx.imports, sx.isClient),
                        "none")
          ELSE cacheStore
    /\ idx' = idx + 1
    /\ sx' = NoStage
    /\ UNCHANGED <<manifest, fileContent, fileMtime, pc, opts, evidenceMap, sideMap,
                   packages, totals, last, hist, budget, cx>>

RaceInit ==
    /\ manifest \in Manifests
    /\ \E c1 \in RaceContents :
          fileContent = [f \in FileSet |-> IF f = Files[1] THEN c1 ELSE StaticImportFile]
    /\ fileMtime = [f \in FileSet |-> 1]
    /\ cacheStore = [f \in FileSet |-> NoEntry]
    /\ pc = "idle"
    /\ opts = DefaultOptions
    /\ idx = 0
    /\ evidenceMap = [n \in Names |-> <<>>]
    /\ sideMap = [n \in Names |-> NoSides]
    /\ packages = <<>>
    /\ totals = NoTotals
    /\ last = NoLast
    /\ hist = NoHist
    /\ budget = [runs |-> MaxRuns, edits |-> MaxWrites, faults |-> 0]
    /\ sx = NoStage
    /\ cx = NoConf

RaceNext ==
    \/ StartScan(DefaultOptions) /\ UNCHANGED <<sx, cx>>
    \/ StepGet
    \/ StepStat
    \/ StepStageA
    \/ StepStageB
    \/ StepSet
    \/ (sx.applied = "none" /\ BuildResults /\ UNCHANGED <<sx, cx>>)
    \/ \E f \in FileSet, c \in EditContents : WriteFile(f, c)

SpecRace == RaceInit /\ [][RaceNext]_vars

----------------------------------------------------------------------------
(* The two directive detectors applied to one file content *)

MaxBody == 2

\* how many comment or blank lines precede the body
PadLens == {0, 1, 9, 10, 19, 20}

DirectiveStmts ==
    {Directive(q, l) : q \in {"dq", "sq", "bt"},
                       l \in {"plain", "semi", "semi2", "spaced_semi", "indent"}}
    \cup {Directive("sq", "indent_semi"), Stmt("literal", UseClientText, "dq", ""),
          Plain("other"), SQ("import_from", PkgA, "spaced"),
          Plain("comment"), Stmt("comment", <<>>, "", "indent"),
          Plain("blank"), Stmt("blank", <<>>, "", "indent")}

Pad(st, n) == [i \in 1..n |-> st]

DirectiveContents ==
    {Pad(st, n) \o body : st \in {Plain("comment"), Stmt("blank", <<>>, "", "indent")},
                          n \in PadLens, body \in SeqsUpTo(DirectiveStmts, MaxBody)}

DirectiveInit ==
    /\ ScanIdle
    /\ cx = NoConf
    /\ \E c \in DirectiveContents : sx = [NoStage EXCEPT !.content = c]

RunDetectUseClient ==
    /\ sx.applied = "none"
    /\ sx' = [sx EXCEPT !.isClient = detectUseClient(sx.content), !.applied = "parser"]
    /\ UNCHANGED <<scanVars, cx>>

RunHasUseClient ==
    /\ sx.applied = "parser"
    /\ sx' = [sx EXCEPT !.hasClient = hasUseClient(sx.content), !.applied = "scanner"]
    /\ UNCHANGED <<scanVars, cx>>

DirectiveNext == RunDetectUseClient \/ RunHasUseClient

SpecDirective == DirectiveInit /\ [][DirectiveNext]_vars

----------------------------------------------------------------------------
(* normalizePackageName applied to one import specifier, then to its result *)

MaxSpecLen == 6

SpecChars == {"@", "/", "a", "b"}

NormSpecifiers == UNION {[1..k -> SpecChars] : k \in 0..MaxSpecLen}

NormInit ==
    /\ ScanIdle
    /\ cx = NoConf
    /\ \E x \in NormSpecifiers : sx = [NoStage EXCEPT !.specifier = x]

RunNormalize ==
    /\ sx.applied = "none"
    /\ sx' = [sx EXCEPT !.normalized = normalizePackageName(sx.specifier),
                        !.scanned = scannerNormalizePackageName(sx.specifier),
                        !.applied = "once"]
    /\ UNCHANGED <<scanVars, cx>>

RunNormalizeAgain ==
    /\ sx.applied = "once"
    /\ sx' = [sx EXCEPT !.renormalized = normalizePackageName(sx.normalized),
                        !.applied = "twice"]
    /\ UNCHANGED <<scanVars, cx>>

NormNext == RunNormalize \/ RunNormalizeAgain

SpecNorm == NormInit /\ [][NormNext]_vars

----------------------------------------------------------------------------
(* Properties *)

\* a step of the file loop that ran processFile on f
ProcessedStep(f) == pc = "scanning" /\ idx <= Len(Files) /\ f = Files[idx] /\ idx' = idx + 1

\* the last call missed the cache, got candidates from Stage A, read the file
\* for Stage B, and the parser rejected the text
ParseFailed ==
    /\ pc = "scanning"
    /\ last.file # "none"
    /\ ~last.hit
    /\ last.stageB = "ran"
    /\ last.syntaxError

HasEntry(evidence, file, type) ==
    \E i \in 1..Len(evidence) : evidence[i].file = file /\ evidence[i].type = type

\* C1: when Stage B fails to parse a file on a cache miss, every Stage A
\* candidate of that file has a string_reference entry from that file.
C1_ParseFailureFallsBack ==
    ParseFailed =>
        \A i \in 1..Len(last.candidates) :
            HasEntry(evidenceMap[last.candidates[i]], last.file, "string_reference")

\* C2: every declared name that Stage B extracts from a content is among the
\* Stage A candidates of that content.
C2_StageANoFalseNegative ==
    sx.applied = "AB" =>
        \A i \in 1..Len(sx.imports) :
            sx.imports[i].packageName \in Range(sx.names)
                => sx.imports[i].packageName \in Range(sx.candidates)

\* two consecutive finished runs, both with the cache enabled, nothing changed
\* between them and no I/O operation failing in either
RepeatedRun ==
    /\ pc = "done"
    /\ hist.prevValid
    /\ ~hist.changedBefore
    /\ ~opts.noCache /\ ~hist.prevOpts.noCache
    /\ opts = hist.prevOpts
    /\ ~hist.faulted /\ ~hist.prevFaulted

\* C3: a repeated run over an unchanged tree yields the same
\* PackageResult values as the run before it, and no result holds more
\* evidence entries than before.
C3_RepeatedRunIdentical ==
    RepeatedRun =>
        /\ packages = hist.prevPackages
        /\ \A i \in 1..Len(packages) :
              Len(packages[i].evidence) <= Len(hist.prevPackages[i].evidence)

\* C4: a processFile call whose Stage B parse fails writes no cache entry.
C4_NoCacheWriteOnParseFailure ==
    [][\A f \in FileSet :
          (ProcessedStep(f) /\ ~last'.hit /\ last'.stageB = "ran" /\ last'.syntaxError)
              => cacheStore'[f] = cacheStore[f]]_vars

\* C5: what cache.get returns to processFile is non-null only if the cache is
\* enabled, the entry exists and can be read, and its stored mtime is the
\* file's current mtime; only such an entry is replayed.
C5_CacheGetValidates ==
    [][\A f \in FileSet : \A fault \in Faults \cup {"none"} :
          (ProcessedStep(f) /\ (last'.cached.present \/ last'.hit)
             /\ ProcessFile(fault))
              => /\ ~opts.noCache
                 /\ cacheStore[f].present
                 /\ fault \notin {"cacheRead", "statGet"}
                 /\ cacheStore[f].mtime = fileMtime[f]
                 /\ last'.cached = cacheStore[f]]_vars

\* C5 witness: after an edit of the first file it was processed again and
\* cached anew, and the untouched second file is served from the cache
C5_Witness ==
    /\ pc = "scanning"
    /\ hist.changedBefore
    /\ last.file = Files[2]
    /\ last.hit
    /\ fileMtime[Files[1]] > 1
    /\ cacheStore[Files[1]].mtime = fileMtime[Files[1]]

ReplayedEvidence(f) == Evidence(f, 0, "static_import", CachedSnippet)

\* C6: a cache hit appends exactly one synthetic static_import entry with
\* snippet "(cached)" per cached name, sets the cached mode flag for those
\* names, and changes nothing else: no other evidence, no cache write.
C6_CacheHitReplays ==
    [][\A f \in FileSet :
          (ProcessedStep(f) /\ last'.hit)
              => LET cached == cacheStore[f]
                     replayed == Range(cached.imports)
                 IN  /\ cacheStore' = cacheStore
                     /\ \A n \in Names :
                           /\ evidenceMap'[n] =
                                IF n \in replayed
                                THEN Append(evidenceMap[n], ReplayedEvidence(f))
                                ELSE evidenceMap[n]
                           /\ sideMap'[n] =
                                IF n \notin replayed THEN sideMap[n]
                                ELSE IF cached.isClient
                                THEN [sideMap[n] EXCEPT !.client = TRUE]
                                ELSE [sideMap[n] EXCEPT !.server = TRUE]]_vars

\* C6 witness: a hit on a client-mode file with two cached names
C6_Witness ==
    /\ pc = "scanning"
    /\ last.hit
    /\ last.cached.isClient
    /\ Len(last.cached.imports) = 2
    /\ HasEntry(evidenceMap[PkgScoped], last.file, "static_import")
    /\ sideMap[PkgScoped].client

\* C7: a cache miss on which Stage A yields no candidates leaves the
\* evidence map, the mode-flag map and the cache unchanged.
C7_NoCandidatesNoEffect ==
    [][\A f \in FileSet :
          (ProcessedStep(f) /\ ~last'.hit /\ last'.candidates = <<>>)
              => UNCHANGED <<evidenceMap, sideMap, cacheStore>>]_vars

\* C7 witness: with the cache enabled, a readable file without candidates was
\* skipped after another file had left evidence
C7_Witness ==
    /\ pc = "scanning"
    /\ ~opts.noCache
    /\ last.file = Files[2]
    /\ last.stats.ok
    /\ ~last.hit
    /\ last.candidates = <<>>
    /\ ~cacheStore[Files[2]].present
    /\ evidenceMap[PkgA] # <<>>

\* C8: in every PackageResult the confidence is in [0,1], status unused
\* implies confidence < minConfidenceUnused and status used implies
\* confidence >= minConfidenceUsed, whatever the thresholds.
C8_ResultInvariants ==
    /\ cx.result.confidence \in 0..100
    /\ cx.result.status = "unused" => cx.result.confidence < cx.minUnused
    /\ cx.result.status = "used" => cx.result.confidence >= cx.minUsed

\* C8 witness: a dependency with evidence classified unused
C8_Witness ==
    /\ Len(cx.evidence) >= 2
    /\ cx.result.status = "unused"
    /\ cx.result.confidence > 0

\* the weight table as the documentation gives it
TableWeight(type) ==
    CASE type \in {"static_import", "export_from", "require"} -> 100
      [] type \in {"type_import", "css_import"} -> 90
      [] type = "dynamic_import" -> 80
      [] type = "plugin_reference" -> 50
      [] type = "config_reference" -> 40
      [] type = "string_reference" -> 30
      [] OTHER -> 50

\* the largest weight among the entries of a non-empty list
LargestWeight(evidence) ==
    CHOOSE w \in {TableWeight(evidence[i].type) : i \in 1..Len(evidence)} :
        \A i \in 1..Len(evidence) : TableWeight(evidence[i].type) <= w

\* C9: the confidence is 0 for empty evidence and otherwise
\* min(1.0, maxWeight + min((count - 1) * 0.05, 0.15)) under the weight table.
C9_ConfidenceFormula ==
    cx.result.confidence =
        IF cx.evidence = <<>> THEN 0
        ELSE LET boost == IF (Len(cx.evidence) - 1) * 5 <= 15
                          THEN (Len(cx.evidence) - 1) * 5 ELSE 15
                 sum == LargestWeight(cx.evidence) + boost
             IN  IF sum <= 100 THEN sum ELSE 100

\* C9 witness: five weak entries, the boost at its cap below full confidence
C9_Witness ==
    /\ Len(cx.evidence) = 5
    /\ \A i \in 1..5 : cx.evidence[i].type = "string_reference"
    /\ cx.result.confidence = 45

\* C10: appending an entry never lowers the confidence; an entry no heavier
\* than the current maximum raises it by at most 0.05; the confidence never
\* exceeds the maximum weight by more than 0.15.
C10_Monotone ==
    [][\A type \in AllTypes :
          AppendEvidence(type)
              => /\ cx'.result.confidence >= cx.result.confidence
                 /\ (cx.evidence # <<>>
                       /\ TableWeight(type) <= LargestWeight(cx.evidence))
                        => cx'.result.confidence - cx.result.confidence <= 5
                 /\ cx'.result.confidence <= LargestWeight(cx'.evidence) + 15]_vars

\* C10 witness: a weaker third entry raised the confidence of a dynamic
\* import by another 0.05
C10_Witness ==
    /\ Len(cx.evidence) = 3
    /\ cx.evidence[1].type = "dynamic_import"
    /\ cx.appended = "string_reference"
    /\ cx.result.confidence = 90

\* the status the classification rule of the specification gives
RuleStatus(confidence, minUnused, minUsed) ==
    CASE confidence >= minUsed -> "used"
      [] confidence < minUsed /\ confidence < minUnused -> "unused"
      [] OTHER -> "uncertain"

\* C11: for minUnused <= minUsed, classifyDependency returns used exactly
\* when confidence >= minUsed, unused exactly when confidence < minUnused and
\* uncertain otherwise, both for the confidence of the result at hand and for
\* every confidence in [0,1]; the boundaries are inclusive.
C11_ClassifyBoundaries ==
    cx.minUnused <= cx.minUsed =>
        /\ cx.result.status = "used" <=> cx.result.confidence >= cx.minUsed
        /\ cx.result.status = "unused" <=> cx.result.confidence < cx.minUnused
        /\ cx.result.status = "uncertain" <=>
              (cx.result.confidence >= cx.minUnused /\ cx.result.confidence < cx.minUsed)
        /\ \A c \in 0..FullConfidence :
              /\ classifyDependency(c, cx.minUnused, cx.minUsed)
                    = RuleStatus(c, cx.minUnused, cx.minUsed)
              /\ c = cx.minUnused /\ c < cx.minUsed
                    => classifyDependency(c, cx.minUnused, cx.minUsed) = "uncertain"
              /\ c = cx.minUsed
                    => classifyDependency(c, cx.minUnused, cx.minUsed) = "used"

\* C11 witness: an appended entry puts the confidence exactly on minUsed
C11_Witness ==
    /\ cx.appended # "none"
    /\ cx.minUnused < cx.minUsed
    /\ cx.result.confidence = cx.minUsed
    /\ cx.result.status = "used"

\* C12: a scan whose minConfidenceUnused exceeds minConfidenceUsed is
\* rejected: it never finishes with results, and no PackageResult is built.
C12_InvertedThresholdsRejected ==
    (pc # "idle" /\ opts.minConfidenceUnused > opts.minConfidenceUsed)
        => (pc # "done" /\ packages = <<>>)

ImportForms ==
    {"import_from", "import_type", "import_side", "export_from", "dynamic", "require"}

\* where the scanned files import the package n: <<file, statement>> pairs
ImportsOf(n) ==
    UNION {{<<f, i>> : i \in {j \in 1..Len(fileContent[f]) :
                                /\ fileContent[f][j].form \in ImportForms
                                /\ normalizePackageName(fileContent[f][j].spec) = n}} :
           f \in FileSet}

HasDirective(content) == \E i \in 1..Len(content) : content[i].form = "directive"

\* the package is imported once in all scanned files, by a value-level static
\* import, in a file without a directive
SingleStaticImport(n) ==
    /\ Cardinality(ImportsOf(n)) = 1
    /\ \A p \in ImportsOf(n) :
          /\ fileContent[p[1]][p[2]].form \in {"import_from", "import_side"}
          /\ ~HasDirective(fileContent[p[1]])

\* C13: after a first scan, a declared dependency imported by exactly one
\* value-level static import in exactly one file without a directive is
\* used, with confidence 1.0, side server and one static_import entry.
C13_SingleStaticImportUsed ==
    pc = "done" =>
        \A k \in 1..Len(packages) :
            SingleStaticImport(packages[k].name) =>
                /\ packages[k].status = "used"
                /\ packages[k].confidence = FullConfidence
                /\ packages[k].side = "server"
                /\ Len(packages[k].evidence) = 1
                /\ packages[k].evidence[1].type = "static_import"

\* the names some section of the manifest declares
Declared(pkg) ==
    UNION {Range(SectionNames(pkg, DEPENDENCY_SECTIONS[k])) : k \in 1..Len(DEPENDENCY_SECTIONS)}

SectionsDeclaring(pkg, n) ==
    {k \in 1..Len(DEPENDENCY_SECTIONS) : n \in Range(SectionNames(pkg, DEPENDENCY_SECTIONS[k]))}

WithStatus(status) == {k \in 1..Len(packages) : packages[k].status = status}

\* C14: a finished run holds exactly one PackageResult per distinct declared
\* name, and the three totals count the results of each status and add up to
\* the number of results.
C14_OneResultPerName ==
    pc = "done" =>
        /\ Len(packages) = Cardinality(Declared(manifest))
        /\ {packages[k].name : k \in 1..Len(packages)} = Declared(manifest)
        /\ totals.used = Cardinality(WithStatus("used"))
        /\ totals.unused = Cardinality(WithStatus("unused"))
        /\ totals.uncertain = Cardinality(WithStatus("uncertain"))
        /\ totals.used + totals.unused + totals.uncertain = Len(packages)

\* C14 witness: a name declared in three sections and another in two give
\* two results, one used and one unused
C14_Witness ==
    /\ pc = "done"
    /\ Cardinality(SectionsDeclaring(manifest, PkgA)) = 3
    /\ Cardinality(SectionsDeclaring(manifest, PkgScoped)) = 2
    /\ Len(packages) = 2
    /\ totals.used = 1
    /\ totals.unused = 1

\* the side the rule of the specification gives for recorded flags
RuleSide(flags) ==
    CASE flags.client /\ flags.server -> "both"
      [] flags.client /\ ~flags.server -> "client"
      [] ~flags.client /\ flags.server -> "server"
      [] OTHER -> "unknown"

\* the call recorded an import of n (not a string_reference fallback entry)
RecordedImport(n) ==
    /\ Len(evidenceMap'[n]) > Len(evidenceMap[n])
    /\ evidenceMap'[n][Len(evidenceMap'[n])].type # "string_reference"

\* C15: each processFile call sets, for every name it records an import of,
\* the flag of the mode of that file (client when the file opens with the
\* directive, server otherwise) and no other flag; every PackageResult built
\* from the flags has side both when both flags are set, client or server
\* when one is, and unknown when none is.
C15_SideFromModeFlags ==
    [][/\ \A f \in FileSet : ProcessedStep(f) =>
             \A n \in Names :
                 sideMap'[n] =
                     IF ~RecordedImport(n) THEN sideMap[n]
                     ELSE IF detectUseClient(fileContent[f])
                     THEN [sideMap[n] EXCEPT !.client = TRUE]
                     ELSE [sideMap[n] EXCEPT !.server = TRUE]
       /\ (pc = "scanning" /\ pc' = "done") =>
             \A k \in 1..Len(packages') :
                 packages'[k].side = RuleSide(sideMap[packages'[k].name])]_vars

\* C15 witness: a finished run in which one dependency was imported from a
\* client-mode and a server-mode file and another from a client-mode file only
C15_Witness ==
    /\ pc = "done"
    /\ \E k \in 1..Len(packages) : packages[k].side = "both"
    /\ \E k \in 1..Len(packages) : packages[k].side = "client"

\* C16: the result of every name the peer section declares, also of a name
\* that another section declares too, carries the peer-dependency warning.
C16_PeerWarningForEveryPeer ==
    pc = "done" =>
        \A k \in 1..Len(packages) :
            packages[k].name \in Range(SectionNames(manifest, "peerDependencies"))
                => PeerWarning \in Range(packages[k].notes)

\* the first section, in the order of DEPENDENCY_SECTIONS, that declares n
FirstSection(pkg, n) ==
    DEPENDENCY_SECTIONS[CHOOSE k \in SectionsDeclaring(pkg, n) :
                            \A j \in SectionsDeclaring(pkg, n) : k <= j]

\* C17: for every declared name getDependencySection returns the first
\* section that declares it, in the order dependencies, devDependencies,
\* optionalDependencies, peerDependencies, and the name's PackageResult has
\* that section.
C17_FirstMatchSection ==
    pc = "done" =>
        \A k \in 1..Len(packages) :
            /\ getDependencySection(manifest, packages[k].name)
                  = FirstSection(manifest, packages[k].name)
            /\ packages[k].section = FirstSection(manifest, packages[k].name)

ConfigNote == "Referenced in config files but not verified as imported"
StringNote == "Only found as string literal references"
PluginNote == "Possibly used as plugin - verify manually"
NoEvidenceNote == "No usage evidence found"

\* the notes in the order config, string, plugin, no-evidence, peer
NotesInOrder == <<ConfigNote, StringNote, PluginNote, NoEvidenceNote, PeerWarning>>

\* the notes the rule of the specification asks for
WantedNotes(status, evidence, section) ==
    {ConfigNote : t \in {e \in Range(evidence) :
                            status = "uncertain" /\ e.type = "config_reference"}}
    \cup {StringNote : t \in {e \in Range(evidence) :
                                status = "uncertain" /\ e.type = "string_reference"}}
    \cup {PluginNote : t \in {e \in Range(evidence) :
                                status = "uncertain" /\ e.type = "plugin_reference"}}
    \cup (IF status = "uncertain" /\ evidence = <<>> THEN {NoEvidenceNote} ELSE {})
    \cup (IF section = "peerDependencies" THEN {PeerWarning} ELSE {})

\* seq lists exactly the members of S, each once, in the order of NotesInOrder
ListsInOrder(seq, S) ==
    /\ Range(seq) = S
    /\ Len(seq) = Cardinality(S)
    /\ \A i, j \in 1..Len(seq) :
          i < j => \E a, b \in 1..Len(NotesInOrder) :
                      a < b /\ NotesInOrder[a] = seq[i] /\ NotesInOrder[b] = seq[j]

\* C18: the notes of a result are the evidence-based notes when and only
\* when the status is uncertain, plus the peer warning when the section is
\* peerDependencies whatever the status, in the order config, string, plugin,
\* no-evidence, peer; a result neither uncertain nor peer has no notes.  The
\* same holds for generateNotes on the evidence at hand with every status
\* and section.
C18_NotesContentAndOrder ==
    /\ ListsInOrder(cx.result.notes,
                    WantedNotes(cx.result.status, cx.evidence, cx.result.section))
    /\ \A status \in {"used", "unused", "uncertain"} :
          \A section \in Range(DEPENDENCY_SECTIONS) :
              /\ ListsInOrder(generateNotes(status, cx.evidence, section),
                              WantedNotes(status, cx.evidence, section))
              /\ (status # "uncertain" /\ section # "peerDependencies")
                    => generateNotes(status, cx.evidence, section) = <<>>

\* C18 witness: an uncertain peer dependency with config, string and plugin
\* references carries the four notes
C18_Witness ==
    /\ cx.appended # "none"
    /\ cx.result.status = "uncertain"
    /\ cx.result.section = "peerDependencies"
    /\ cx.result.notes = <<ConfigNote, StringNote, PluginNote, PeerWarning>>

\* the trimmed lines the detector may look at: the first n of the content
FirstLines(content, n) ==
    LET lines == Lines(Tokens(content))
    IN  [i \in 1..Min(Len(lines), n) |-> Trim(lines[i])]

\* a trimmed line that is neither empty nor a // comment
Substantive(line) == line # <<>> /\ line[1].t # "//"

\* the double- or single-quoted literal use client
IsUseClientLiteral(tok) ==
    tok.t = "str" /\ tok.s = UseClientText /\ tok.q \in {"dq", "sq"}

\* the literal, with at most one semicolon right after it
LiteralOptSemi(line) ==
    \/ Len(line) = 1 /\ IsUseClientLiteral(line[1])
    \/ Len(line) = 2 /\ IsUseClientLiteral(line[1]) /\ line[2].t = ";"

\* the first substantive line among the first n exists and is the directive
FirstSubstantiveIsDirective(content, n) ==
    LET lines == FirstLines(content, n)
    IN  \E i \in 1..Len(lines) :
            /\ Substantive(lines[i])
            /\ \A j \in 1..(i - 1) : ~Substantive(lines[j])
            /\ LiteralOptSemi(lines[i])

\* C19: detectUseClient returns true exactly when the first line among the
\* first 20 that is neither blank nor a // comment is the quoted literal
\* use client with at most one trailing semicolon.
C19_DetectUseClientExact ==
    sx.applied \in {"parser", "scanner"} =>
        (sx.isClient <=> FirstSubstantiveIsDirective(sx.content, DetectLines))

\* C19 witness: the directive on line 20, after 19 comment lines, is
\* detected
C19_Witness ==
    /\ sx.applied = "parser"
    /\ Len(sx.content) = 20
    /\ \A i \in 1..19 : sx.content[i].form = "comment"
    /\ sx.content[20].form = "directive"
    /\ sx.isClient

\* C20: hasUseClient returns true whenever the first line among the first 10
\* that is neither blank nor a // comment is the quoted literal use client,
\* with or without a trailing semicolon.
C20_HasUseClientDetects ==
    sx.applied = "scanner" =>
        (FirstSubstantiveIsDirective(sx.content, HasLines) => sx.hasClient)

\* the lines of the content that are the directive: the quoted literal with at
\* most one trailing semicolon
DirectiveLineNumbers(content) ==
    LET lines == FirstLines(content, Len(Lines(Tokens(content))))
    IN  {i \in 1..Len(lines) : LiteralOptSemi(lines[i])}

\* a substantive line precedes the first directive line
DirectiveAfterStatement(content) ==
    LET lines == FirstLines(content, Len(Lines(Tokens(content))))
    IN  \E d \in DirectiveLineNumbers(content) :
            /\ \A e \in DirectiveLineNumbers(content) : d <= e
            /\ \E i \in 1..(d - 1) : Substantive(lines[i])

\* the literal occurs, but no line is the directive
LiteralOnlyInsideStatement(content) ==
    /\ DirectiveLineNumbers(content) = {}
    /\ \E i \in 1..Len(Tokens(content)) : IsUseClientLiteral(Tokens(content)[i])

\* the first directive line is past the line limit
DirectiveAfterLimit(content, n) ==
    /\ DirectiveLineNumbers(content) # {}
    /\ \A d \in DirectiveLineNumbers(content) : d > n

\* C21: hasUseClient returns false when a substantive line that is not the
\* directive precedes the directive line, when the literal occurs only
\* inside a larger statement, and when the directive first appears on line
\* 11 or later.
C21_HasUseClientFirstStatementOnly ==
    sx.applied = "scanner" =>
        ((\/ DirectiveAfterStatement(sx.content)
          \/ LiteralOnlyInsideStatement(sx.content)
          \/ DirectiveAfterLimit(sx.content, HasLines)) => ~sx.hasClient)

\* positions of the separators of a specifier
Slashes(x) == {i \in 1..Len(x) : x[i] = "/"}

\* the text of x before its n-th separator and after the one before it
Segment(x, n) ==
    LET before == {i \in Slashes(x) : Cardinality({j \in Slashes(x) : j <= i}) = n - 1}
        at == {i \in Slashes(x) : Cardinality({j \in Slashes(x) : j <= i}) = n}
        from == IF before = {} THEN 1 ELSE (CHOOSE i \in before : TRUE) + 1
        to == IF at = {} THEN Len(x) ELSE (CHOOSE i \in at : TRUE) - 1
    IN  SubSeq(x, from, to)

\* the package name the rule of the specification gives
RuleName(x) ==
    IF x = <<>> THEN <<>>
    ELSE IF x[1] = "@" /\ Cardinality(Slashes(x)) >= 1
    THEN Segment(x, 1) \o <<"/">> \o Segment(x, 2)
    ELSE Segment(x, 1)

\* C22: normalizePackageName (in parser.ts and in scanner.ts) maps a
\* specifier starting with @ that has at least two segments to its first two
\* segments joined by /, any other to its first segment, the empty string to
\* the empty string, and applying it to its own result changes nothing.
C22_NormalizeIdempotent ==
    /\ sx.applied \in {"once", "twice"} =>
          /\ sx.normalized = RuleName(sx.specifier)
          /\ sx.scanned = RuleName(sx.specifier)
    /\ sx.applied = "twice" => sx.renormalized = sx.normalized

\* C22 witness: a scoped specifier with a subpath was cut to scope and name,
\* and normalizing that again gave the same
C22_Witness ==
    /\ sx.applied = "twice"
    /\ sx.specifier = <<"@", "a", "/", "b", "/", "a">>
    /\ sx.normalized = <<"@", "a", "/", "b">>
    /\ sx.renormalized = <<"@", "a", "/", "b">>

\* position of a file in the list runScan walks
FileIndex(f) == CHOOSE i \in 1..Len(Files) : Files[i] = f

\* C25: within a run every processFile step extends each evidence list and
\* leaves the entries already recorded as they were; the evidence of each
\* PackageResult is the whole list accumulated for its name, and its entries
\* follow the order in which the files were processed.
C25_EvidenceAppendOnly ==
    [][/\ (pc = "scanning" /\ pc' = "scanning") =>
             \A n \in Names :
                 /\ Len(evidenceMap'[n]) >= Len(evidenceMap[n])
                 /\ SubSeq(evidenceMap'[n], 1, Len(evidenceMap[n])) = evidenceMap[n]
       /\ (pc = "scanning" /\ pc' = "done") =>
             \A k \in 1..Len(packages') :
                 /\ packages'[k].evidence = evidenceMap[packages'[k].name]
                 /\ \A i, j \in 1..Len(packages'[k].evidence) :
                       i < j => FileIndex(packages'[k].evidence[i].file)
                                  <= FileIndex(packages'[k].evidence[j].file)]_vars

\* C25 witness: a finished run whose result for one name holds an entry from
\* the first file followed by an entry from the second
C25_Witness ==
    /\ pc = "done"
    /\ \E k \in 1..Len(packages) :
          /\ Len(packages[k].evidence) >= 2
          /\ packages[k].evidence[1].file = Files[1]
          /\ packages[k].evidence[Len(packages[k].evidence)].file = Files[2]

\* the statements of a content that import with a string literal
LiteralImports(content) ==
    {i \in 1..Len(content) :
        content[i].form \in ImportForms /\ content[i].q \in {"dq", "sq"}}

\* C26: from a content that parses, Stage B returns one entry per import,
\* export-from, dynamic import and require whose argument is a string
\* literal; a require call with any other argument adds no entry and takes
\* none of the other entries away.
C26_RequireOnlyStringLiteral ==
    (sx.applied = "AB" /\ ~HasSyntaxError(sx.content)) =>
        /\ Len(sx.imports) = Cardinality(LiteralImports(sx.content))
        /\ Cardinality({k \in 1..Len(sx.imports) : sx.imports[k].type = "require"})
             = Cardinality({i \in LiteralImports(sx.content) :
                               sx.content[i].form = "require"})

\* the evidence types a scan records
ScanTypes ==
    {"static_import", "type_import", "export_from", "dynamic_import", "require",
     "string_reference"}

\* C29: every evidence entry a scan collects and every entry of a
\* PackageResult has one of the six types static_import, type_import,
\* export_from, dynamic_import, require, string_reference, and no
\* PackageResult carries the config note or the plugin note.
C29_OnlyScanTypes ==
    /\ \A n \in Names : \A i \in 1..Len(evidenceMap[n]) :
          evidenceMap[n][i].type \in ScanTypes
    /\ \A k \in 1..Len(packages) :
          /\ \A i \in 1..Len(packages[k].evidence) :
                packages[k].evidence[i].type \in ScanTypes
          /\ \A j \in 1..Len(packages[k].notes) :
                packages[k].notes[j] \notin {ConfigNote, PluginNote}

\* a finished scan with Stage B entries, a fallback entry and a note
C29_Witness ==
    /\ pc = "done"
    /\ \E k \in 1..Len(packages) :
          /\ HasType(packages[k].evidence, "dynamic_import")
          /\ packages[k].notes # <<>>
    /\ \E k \in 1..Len(packages) :
          /\ HasType(packages[k].evidence, "type_import")
          /\ HasType(packages[k].evidence, "string_reference")

\* the Stage B imports of a content whose normalized name is n
ImportsNamed(content, n) ==
    LET Named(imp) == imp.packageName = n
    IN  SelectSeq(parseFile(content), Named)

\* C30: when processFile misses the cache, reads the file and Stage B
\* returns, each declared name gets one new entry per Stage B import of that
\* name, in order, with the import's type and line, whether or not Stage A
\* listed the name; a name Stage B did not extract keeps its evidence and
\* its mode flags.
C30_EvidenceFromStageB ==
    [][\A f \in FileSet :
          (ProcessedStep(f) /\ last'.stageB = "ran" /\ ProcessFile("none")) =>
              \A n \in Names :
                  LET sel == IF n \in Declared(manifest)
                             THEN ImportsNamed(fileContent[f], n) ELSE <<>>
                      old == evidenceMap[n]
                      new == evidenceMap'[n]
                  IN  /\ Len(new) = Len(old) + Len(sel)
                      /\ SubSeq(new, 1, Len(old)) = old
                      /\ \A j \in 1..Len(sel) :
                            /\ new[Len(old) + j].file = f
                            /\ new[Len(old) + j].type = sel[j].type
                            /\ new[Len(old) + j].line = sel[j].line
                      /\ sel = <<>> => sideMap'[n] = sideMap[n]]_vars

\* Stage A listed a, Stage B extracted only @s/b, which Stage A did not list
C30_Witness ==
    /\ last.stageB = "ran"
    /\ PkgA \in Range(last.candidates)
    /\ PkgScoped \notin Range(last.candidates)
    /\ evidenceMap[PkgA] = <<>>
    /\ sideMap[PkgA] = NoSides
    /\ Len(evidenceMap[PkgScoped]) = 1
    /\ sideMap[PkgScoped].server

\* the evidence and mode flags of a scan of Files[i..] with caching disabled
RECURSIVE UncachedMaps(_, _)
UncachedMaps(maps, i) ==
    IF i > Len(Files) THEN maps
    ELSE LET r == processFile(Files[i], getAllDependencyNames(manifest), maps.ev,
                              maps.side, FALSE, cacheStore, fileContent, fileMtime,
                              "none")
         IN  UncachedMaps([ev |-> r.ev, side |-> r.side], i + 1)

UncachedScan ==
    UncachedMaps([ev |-> [n \in Names |-> <<>>], side |-> [n \in Names |-> NoSides]], 1)

\* C27: a scan that just finished with the cache enabled and without an I/O
\* failure, over files whose mtimes never changed, gives non-empty evidence to the same declared dependencies
\* as a scan of the same files and manifest with caching disabled, whatever
\* manifest the earlier scans ran with.
C27_CachedScanFindsSameNames ==
    (pc = "done" /\ ~hist.changed /\ ~hist.faulted /\ ~opts.noCache) =>
        \A k \in 1..Len(packages) :
            packages[k].evidence # <<>>
                <=> UncachedScan.ev[packages[k].name] # <<>>

\* a step of the file loop on file f
FileStep(f) == pc = "scanning" /\ idx <= Len(Files) /\ f = Files[idx] /\ last'.file = f

\* the PackageResults of a scan of the same files with caching disabled
UncachedPackages ==
    LET allDeps == getAllDependencyNames(manifest)
    IN  [i \in 1..Len(allDeps) |->
            PackageResult(manifest, allDeps[i], UncachedScan.ev, UncachedScan.side,
                          opts.minConfidenceUnused, opts.minConfidenceUsed)]

\* C23: no cache failure is surfaced.  On every step of the file loop a
\* missing or corrupt cache entry makes get return null, the step does not
\* make the scan fail, and a path that cannot be written keeps what it held;
\* a scan without any other failure whose cache writes all fail ends with
\* the PackageResults of the scan with caching disabled.
C23_CacheFailuresAbsorbed ==
    [][/\ \A f \in FileSet :
             FileStep(f) =>
                 /\ (~cacheStore[f].present \/ cacheStore[f].shape # "entry")
                        => ~last'.cached.present
                 /\ pc' # "failed"
                 /\ cacheStore[f].shape = "blocked" => cacheStore'[f] = cacheStore[f]
       /\ (/\ pc = "scanning" /\ pc' = "done"
           /\ ~opts.noCache /\ ~hist.faulted
           /\ \A f \in FileSet : cacheStore[f].shape = "blocked")
              => packages' = UncachedPackages]_vars

\* C24: runScan fails only on a manifest failure, before any file is
\* processed; a scan that got past the manifest processes every file and ends
\* with one PackageResult per declared dependency.
C24_OnlyManifestFailures ==
    /\ pc = "failed" => (idx = 0 /\ last = NoLast)
    /\ pc = "done" =>
          /\ Len(packages) = Len(getAllDependencyNames(manifest))
          /\ \A k \in 1..Len(packages) :
                packages[k].name = getAllDependencyNames(manifest)[k]

\* C28: with an external writer interleaved with the steps of processFile,
\* after every step an entry of the cache whose mtime is the file's current
\* mtime holds the hash of the file's current content, and an entry that is
\* replayed has the file's current mtime and was computed from the file's
\* current content.
C28_NoStaleReplay ==
    [][/\ \A f \in FileSet :
             (cacheStore'[f].present /\ cacheStore'[f].mtime = fileMtime'[f])
                 => cacheStore'[f].hash = createHash(fileContent'[f])
       /\ (last'.hit /\ ~last.hit) =>
             /\ last'.cached.mtime = fileMtime'[last'.file]
             /\ last'.cached.hash = createHash(fileContent'[last'.file])]_vars

\* all writes done, an entry is replayed for a file that was rewritten
C28_Witness ==
    /\ last.hit
    /\ fileMtime[last.file] > 1
    /\ budget.edits = 0
    /\ last.cached.hash = createHash(fileContent[last.file])

====
